---- MODULE Spec2Model ----
(***************************************************************************)
(* Model of src/src/main.py: the Apify actor that logs into adopte.app     *)
(* with Playwright, reads window.apiRefreshToken, exchanges it at          *)
(* /authtokens for an auth token, calls /boost and pushes one record.      *)
(*                                                                         *)
(* main() is one coroutine.  Every call it makes to the outside (proxy     *)
(* provisioning, browser, page, requests, dataset) is modelled by a start  *)
(* step, which puts the call in flight, and by the steps that end it: the  *)
(* call returns, or it raises (a timeout or another error).  The page is   *)
(* free to write window.apiRefreshToken whenever it is alive.              *)
(***************************************************************************)
EXTENDS Integers, Sequences, FiniteSets, TLC

VARIABLES
  pc,                 \* the call main() is at, "finish" or "exited"
  inputShape,         \* the JSON value Actor.get_input() has to return (line 51)
  email,              \* its "email", what inp.get("email") gives (line 52)
  password,           \* its "password", what inp.get("password") gives (line 53)
  headless,           \* what inp.get("headless", True) gives (line 54)
  proxy,              \* TRUE once get_proxy() has returned (line 60)
  browser,            \* "none", "open", "closed": the Playwright session
  navStatus,          \* HTTP status of the response page.goto received (0: none)
  loginStatus,        \* HTTP status the page got for the submitted login form (0: none)
  pageToken,          \* window.apiRefreshToken on the page
  api_refresh_token,  \* local of main (line 65, 95)
  headers,            \* the headers dict (lines 102-107, 127)
  resp,               \* response of POST /authtokens (line 113)
  auth_token,         \* local of main (line 124)
  boost_resp,         \* response of GET /boost (line 130)
  calls,              \* the calls main() has started, in order
  inflight,           \* the calls started and not yet ended
  sent,               \* the requests handed to requests.post / requests.get
  pushed,             \* the records handed to Actor.push_data
  failCalls,          \* the messages main() has called Actor.fail with
  failed,             \* the failures the platform was told of, in order
  error,              \* the exception raised last, if any
  leaving,            \* why the Playwright block is being left: "normal", "return", "raise"
  exitStatus          \* "RUNNING", "SUCCEEDED" or "FAILED"

vars == << pc, inputShape, email, password, headless, proxy, browser, navStatus, loginStatus,
           pageToken, api_refresh_token, headers, resp, auth_token, boost_resp,
           calls, inflight, sent, pushed, failCalls, failed, error, leaving,
           exitStatus >>

----------------------------------------------------------------------------
(* Values *)

\* Longest "data" list of an /authtokens body the model draws.
MaxData == 2

Absent == "<absent>"        \* a key the input object does not hold
None == "<None>"            \* Python None / JSON null
Undefined == "<undefined>"  \* a JS global that is not defined
NoId == "<no id>"           \* an element of data that has no "id" key

InputValues == {Absent, None, "", "a@b.com"}
\* The JSON values the input can be: an object; a falsy value (null, {}, [],
\* 0, "", false), which `or {}` replaces by an empty object; any other value
\* ([1], "abc", 5, true), which has no .get.
InputShapes == {"object", "falsy", "other"}
PageValues == {Undefined, "", "rtA", "rtB"}
IdValues == {"atA", "atB"}
\* Statuses of the /authtokens responses: those of the response requests.post
\* returns (a 3xx with a Location header is followed and never returned; a
\* 300 without one is returned as it is).
StatusCodes == {200, 204, 300, 304, 404, 500}
\* Statuses of the /boost responses.
BoostStatusCodes == {200, 404, 500}
\* Statuses of the page's own responses (the navigation, the login form).
PageStatusCodes == {200, 403, 500}

\* Playwright's timeouts, in ms, and the timeout given to requests, in s.
NavigationTimeoutMs == 60000
SelectorTimeoutMs == 20000
FunctionTimeoutMs == 45000
RequestsTimeoutS == 10
\* page.click / fill / press and chromium.launch are given no timeout:
\* Playwright's default of 30 s applies (only the navigation default is changed).
PlaywrightDefaultTimeoutMs == 30 * 1000

\* The bodies an HTTP response can carry, as far as resp.json()["data"][0]["id"]
\* can tell them apart.
DataLists == UNION { [1..n -> IdValues \cup {NoId}] : n \in 0..MaxData }
Bodies ==
  {[json |-> FALSE, hasData |-> FALSE, data |-> << >>],
   [json |-> TRUE, hasData |-> FALSE, data |-> << >>]}
  \cup {[json |-> TRUE, hasData |-> TRUE, data |-> d] : d \in DataLists}
\* boost_resp.text is kept as it comes and never parsed.
BoostBodies == {[json |-> TRUE, hasData |-> FALSE, data |-> << >>]}

\* A response without content: its text is empty, which is not JSON.
EmptyBody == [json |-> FALSE, hasData |-> FALSE, data |-> << >>]

NoResp == [status |-> 0, body |-> EmptyBody]
NoError == [at |-> "", kind |-> ""]
EmptyDict == [h \in {} |-> ""]

Range(s) == {s[i] : i \in 1..Len(s)}

\* The order in which main() makes its calls.
Order == << "get_proxy", "playwright_start", "launch", "new_context", "new_page",
            "goto", "wait_for_selector", "click", "fill_mail", "fill_password",
            "press", "wait_for_function", "evaluate", "authtokens", "boost",
            "push_data" >>
Calls == Range(Order)
IndexOf(c) == CHOOSE i \in 1..Len(Order) : Order[i] = c

\* Page steps that only return or raise.
PlainPageSteps == {"wait_for_selector", "click", "fill_mail", "fill_password", "press"}
\* The calls made inside the `async with async_playwright()` block.
BlockCalls ==
  {"launch", "new_context", "new_page", "goto"} \cup PlainPageSteps
    \cup {"wait_for_function", "evaluate"}

----------------------------------------------------------------------------
(* Pure parts of main() *)

\* Python truthiness of inp.get(key): a missing key gives None.
Get(v) == IF v = Absent THEN None ELSE v
PyTruthy(v) == v # None /\ v # ""

\* `if not email or not password: fail` (line 55), negated.
ValidInput(e, p) == PyTruthy(Get(e)) /\ PyTruthy(Get(p))

\* wait_for_function("window.apiRefreshToken") resolves on a truthy value.
JsTruthy(v) == v # Undefined /\ v # ""

\* page.evaluate hands a JS value to Python: undefined becomes None.
JsToPy(v) == IF v = Undefined THEN None ELSE v

\* The body requests hands over for what the server sent: http.client reads
\* no content for a 1xx, 204 or 304 response, whatever follows its headers.
ReceivedBody(status, body) ==
  IF status \in 100..199 \/ status = 204 \/ status = 304 THEN EmptyBody ELSE body

\* resp.raise_for_status() raises for 4xx and 5xx, and for nothing else.
RaiseForStatus(s) == s >= 400 /\ s < 600

\* resp.json()["data"][0]["id"]: the value, or the exception raised on the way.
ExtractId(body) ==
  IF ~body.json THEN [ok |-> FALSE, err |-> "JSONDecodeError", val |-> None]
  ELSE IF ~body.hasData THEN [ok |-> FALSE, err |-> "KeyError", val |-> None]
  ELSE IF Len(body.data) = 0 THEN [ok |-> FALSE, err |-> "IndexError", val |-> None]
  ELSE IF body.data[1] = NoId THEN [ok |-> FALSE, err |-> "KeyError", val |-> None]
  ELSE [ok |-> TRUE, err |-> "", val |-> body.data[1]]

\* The headers dict of lines 102-107.
BaseHeaders ==
  [h \in {"User-Agent", "Accept", "Content-Type", "X-Platform"} |->
     CASE h = "User-Agent" -> "Mozilla/5.0"
       [] h = "Accept" -> "application/json, text/plain, */*"
       [] h = "Content-Type" -> "application/x-www-form-urlencoded"
       [] OTHER -> "web"]

\* headers["Authorization"] = f"Bearer {auth_token}" (line 127).
SetAuthorization(hs, tok) == ("Authorization" :> ("Bearer " \o tok)) @@ hs

\* The data dict of the /authtokens request (lines 109-112).
DataForm(rt) == [credentials |-> rt, type |-> "2"]

\* requests form-encodes data= and leaves out the keys whose value is None.
FormEncode(d) == [k \in {x \in DOMAIN d : d[x] # None} |-> d[k]]

\* The record pushed at lines 139-148.
OutputRecord ==
  [success |-> TRUE, apiRefreshToken |-> api_refresh_token, authToken |-> auth_token,
   authtokensStatus |-> resp.status, boostStatus |-> boost_resp.status,
   boostBody |-> boost_resp.body]

\* The statement that follows call c when c returns normally.
NextCall(c) == IF IndexOf(c) < Len(Order) THEN Order[IndexOf(c) + 1] ELSE "finish"

TimeoutMsNoFunctionTimeout(c) ==
  CASE c = "goto" -> NavigationTimeoutMs
    [] c = "wait_for_selector" -> SelectorTimeoutMs
    [] c \in {"launch", "click", "fill_mail", "fill_password", "press"} ->
         PlaywrightDefaultTimeoutMs
    [] c \in {"authtokens", "boost"} -> RequestsTimeoutS * 1000
    [] OTHER -> 0
\* The timeout call c runs under, in ms; 0 when it has none.
TimeoutMs(c) ==
  CASE c = "goto" -> NavigationTimeoutMs
    [] c = "wait_for_selector" -> SelectorTimeoutMs
    [] c \in {"launch", "click", "fill_mail", "fill_password", "press"} ->
         PlaywrightDefaultTimeoutMs
    [] c = "wait_for_function" -> FunctionTimeoutMs
    [] c \in {"authtokens", "boost"} -> RequestsTimeoutS * 1000
    [] OTHER -> 0

\* Leaving the `async with async_playwright()` block stops the browser.
ReleaseBrowser(b) == IF b = "open" THEN "closed" ELSE b

InputMsg == "Input must contain email and password"
NavigationMsg == "Navigation to adopte.app failed"
ExceptionMsg == "exception"

----------------------------------------------------------------------------
(* Initial state: main() has been called and awaits the entry of          *)
(* `async with Actor` (line 47); the run's input is what the store holds.   *)

Init ==
  /\ pc = "actor_enter"
  /\ inputShape \in InputShapes
  /\ IF inputShape = "object"
       THEN email \in InputValues /\ password \in InputValues /\ headless \in BOOLEAN
       ELSE email = Absent /\ password = Absent /\ headless = TRUE
  /\ proxy = FALSE
  /\ browser = "none"
  /\ navStatus = 0
  /\ loginStatus = 0
  /\ pageToken = Undefined
  /\ api_refresh_token = None
  /\ headers = EmptyDict
  /\ resp = NoResp
  /\ auth_token = None
  /\ boost_resp = NoResp
  /\ calls = << >>
  /\ inflight = {"actor_enter"}
  /\ sent = << >>
  /\ pushed = << >>
  /\ failCalls = << >>
  /\ failed = << >>
  /\ error = NoError
  /\ leaving = ""
  /\ exitStatus = "RUNNING"

----------------------------------------------------------------------------
(* Steps *)

input == << inputShape, email, password, headless >>
pageStatus == << navStatus, loginStatus >>
exchange == << resp, auth_token, boost_resp >>

\* What an exception raised by call c does.  Inside the Playwright block it
\* first leaves the block (the awaited __aexit__); then, or at once outside
\* the block, `async with Actor` fails the run.
Abort(c, kind) ==
  /\ error' = [at |-> c, kind |-> kind]
  /\ IF c \in BlockCalls
       THEN /\ pc' = "playwright_exit"
            /\ leaving' = "raise"
            /\ inflight' = {"playwright_exit"}
            /\ UNCHANGED << exitStatus, failed >>
       ELSE /\ pc' = "exited"
            /\ exitStatus' = "FAILED"
            /\ failed' = Append(failed, ExceptionMsg)
            /\ inflight' = {}
            /\ UNCHANGED leaving
  /\ UNCHANGED << browser, pageToken >>

\* Line 47: the awaited entry of `async with Actor` returns and main calls
\* Actor.get_input (line 51).
ActorEnterReturn ==
  /\ pc = "actor_enter" /\ "actor_enter" \in inflight
  /\ pc' = "get_input"
  /\ inflight' = {"get_input"}
  /\ UNCHANGED << input, pageStatus, exchange, proxy, browser, pageToken,
                  api_refresh_token, headers, calls, sent, pushed, failCalls, failed,
                  error, leaving, exitStatus >>

\* Line 47: the entry of `async with Actor` raises or is cancelled: the
\* exception leaves main before anything was read.
ActorEnterRaises ==
  /\ pc = "actor_enter" /\ "actor_enter" \in inflight
  /\ Abort("actor_enter", "error")
  /\ UNCHANGED << input, pageStatus, exchange, proxy, api_refresh_token, headers,
                  calls, sent, pushed, failCalls >>

\* Lines 51-56: Actor.get_input returns and the input is read and checked.  A
\* value that is not an object has no .get: line 52 raises AttributeError.
\* Actor.fail is called on an input without email or password.
ReadInput ==
  /\ pc = "get_input" /\ "get_input" \in inflight
  /\ IF inputShape = "other"
       THEN /\ Abort("inp.get", "AttributeError")
            /\ UNCHANGED failCalls
       ELSE /\ IF ValidInput(email, password)
                 THEN pc' = "get_proxy" /\ inflight' = {} /\ UNCHANGED failCalls
                 ELSE /\ pc' = "actor_fail"
                      /\ inflight' = {"actor_fail"}
                      /\ failCalls' = Append(failCalls, InputMsg)
            /\ UNCHANGED << browser, pageToken, failed, error, leaving, exitStatus >>
  /\ UNCHANGED << input, pageStatus, exchange, proxy, api_refresh_token, headers,
                  calls, sent, pushed >>

\* Line 51: the awaited Actor.get_input raises (the key-value store cannot be
\* reached) or is cancelled: the exception leaves main, the input unread.
GetInputRaises ==
  /\ pc = "get_input" /\ "get_input" \in inflight
  /\ Abort("get_input", "error")
  /\ UNCHANGED << input, pageStatus, exchange, proxy, api_refresh_token, headers,
                  calls, sent, pushed, failCalls >>

\* Lines 56-57 and 84-85: Actor.fail returns, the run is failed with its
\* message, and main returns: out of the Playwright block when it is in it.
ActorFailReturn ==
  /\ pc = "actor_fail" /\ "actor_fail" \in inflight
  /\ exitStatus' = "FAILED"
  /\ failed' = Append(failed, failCalls[Len(failCalls)])
  /\ IF "goto" \in Range(calls)
       THEN /\ pc' = "playwright_exit"
            /\ leaving' = "return"
            /\ inflight' = {"playwright_exit"}
       ELSE /\ pc' = "exited"
            /\ inflight' = {}
            /\ UNCHANGED leaving
  /\ UNCHANGED << input, pageStatus, exchange, proxy, browser, pageToken,
                  api_refresh_token, headers, calls, sent, pushed, failCalls, error >>

\* Lines 56 and 84: the awaited Actor.fail raises (its platform call fails,
\* the task is cancelled, SystemExit), having told the platform of the failure
\* or not: the exception leaves main, through the Playwright block when main
\* is in it.
ActorFailRaises(reported) ==
  /\ pc = "actor_fail" /\ "actor_fail" \in inflight
  /\ error' = [at |-> "actor_fail", kind |-> "error"]
  /\ LET told == IF reported THEN Append(failed, failCalls[Len(failCalls)]) ELSE failed
     IN IF "goto" \in Range(calls)
          THEN /\ failed' = told
               /\ pc' = "playwright_exit"
               /\ leaving' = "raise"
               /\ inflight' = {"playwright_exit"}
               /\ UNCHANGED exitStatus
          ELSE /\ failed' = Append(told, ExceptionMsg)
               /\ pc' = "exited"
               /\ exitStatus' = "FAILED"
               /\ inflight' = {}
               /\ UNCHANGED leaving
  /\ UNCHANGED << input, pageStatus, exchange, proxy, browser, pageToken,
                  api_refresh_token, headers, calls, sent, pushed, failCalls >>

\* A call that takes nothing the model keeps starts.
Start(c) ==
  /\ c \in Calls \ {"authtokens", "boost", "push_data"}
  /\ pc = c
  /\ inflight = {}
  /\ inflight' = {c}
  /\ calls' = Append(calls, c)
  /\ UNCHANGED << pc, input, pageStatus, exchange, proxy, browser, pageToken,
                  api_refresh_token, headers, sent, pushed, failCalls, failed, error, leaving,
                  exitStatus >>

\* Line 60.
GetProxyReturn ==
  /\ pc = "get_proxy" /\ "get_proxy" \in inflight
  /\ proxy' = TRUE
  /\ inflight' = {}
  /\ pc' = NextCall("get_proxy")
  /\ UNCHANGED << input, pageStatus, exchange, browser, pageToken,
                  api_refresh_token, headers, calls, sent, pushed, failCalls, failed, error,
                  leaving, exitStatus >>

\* Line 66 (the block is entered), line 72 and line 75: calls that return
\* and change nothing main() keeps.
SetupReturn(c) ==
  /\ c \in {"playwright_start", "new_context", "new_page"}
  /\ pc = c /\ c \in inflight
  /\ inflight' = {}
  /\ pc' = NextCall(c)
  /\ UNCHANGED << input, pageStatus, exchange, proxy, browser, pageToken,
                  api_refresh_token, headers, calls, sent, pushed, failCalls, failed, error,
                  leaving, exitStatus >>

\* Lines 67-71: chromium.launch returns the browser.
LaunchReturn ==
  /\ pc = "launch" /\ "launch" \in inflight
  /\ browser' = "open"
  /\ inflight' = {}
  /\ pc' = NextCall("launch")
  /\ UNCHANGED << input, pageStatus, exchange, proxy, pageToken,
                  api_refresh_token, headers, calls, sent, pushed, failCalls, failed, error,
                  leaving, exitStatus >>

\* Lines 78-82: page.goto returns the response, whatever its status.
GotoReturn(status) ==
  /\ pc = "goto" /\ "goto" \in inflight
  /\ navStatus' = status
  /\ inflight' = {}
  /\ pc' = NextCall("goto")
  /\ UNCHANGED << input, loginStatus, exchange, proxy, browser, pageToken,
                  api_refresh_token, headers, calls, sent, pushed, failCalls, failed, error,
                  leaving, exitStatus >>

\* Lines 83-84: an Exception of page.goto (a timeout, another error) is
\* caught and Actor.fail is called.
GotoRaises(kind) ==
  /\ kind \in {"timeout", "error"}
  /\ pc = "goto" /\ "goto" \in inflight
  /\ kind = "timeout" => TimeoutMs("goto") > 0
  /\ error' = [at |-> "goto", kind |-> kind]
  /\ inflight' = {"actor_fail"}
  /\ pc' = "actor_fail"
  /\ failCalls' = Append(failCalls, NavigationMsg)
  /\ UNCHANGED << input, pageStatus, exchange, proxy, browser, pageToken,
                  api_refresh_token, headers, calls, sent, pushed, failed, leaving,
                  exitStatus >>

\* Line 83: `except Exception` does not catch a BaseException (CancelledError,
\* KeyboardInterrupt) delivered at page.goto: it leaves main.
GotoCancelled ==
  /\ pc = "goto" /\ "goto" \in inflight
  /\ Abort("goto", "cancelled")
  /\ UNCHANGED << input, pageStatus, exchange, proxy, api_refresh_token, headers,
                  calls, sent, pushed, failCalls >>

\* Lines 88-92.
PageStepReturn(c) ==
  /\ c \in PlainPageSteps
  /\ pc = c /\ c \in inflight
  /\ inflight' = {}
  /\ pc' = NextCall(c)
  /\ UNCHANGED << input, pageStatus, exchange, proxy, browser, pageToken,
                  api_refresh_token, headers, calls, sent, pushed, failCalls, failed, error,
                  leaving, exitStatus >>

\* The page, once Enter was pressed: its login request is answered.
PageLoginResponds(status) ==
  /\ "press" \in Range(calls)
  /\ browser = "open"
  /\ loginStatus = 0
  /\ loginStatus' = status
  /\ UNCHANGED << pc, input, navStatus, exchange, proxy, browser, pageToken,
                  api_refresh_token, headers, calls, inflight, sent, pushed, failCalls, failed,
                  error, leaving, exitStatus >>

\* The page, from the navigation on and as long as the browser lives: its
\* scripts set, change or unset window.apiRefreshToken.
PageSetsToken(tok) ==
  /\ "goto" \in Range(calls)
  /\ browser = "open"
  /\ tok # pageToken
  /\ pageToken' = tok
  /\ UNCHANGED << pc, input, pageStatus, exchange, proxy, browser,
                  api_refresh_token, headers, calls, inflight, sent, pushed, failCalls, failed,
                  error, leaving, exitStatus >>

\* Line 94.
WaitForFunctionReturn ==
  /\ pc = "wait_for_function" /\ "wait_for_function" \in inflight
  /\ JsTruthy(pageToken)
  /\ inflight' = {}
  /\ pc' = NextCall("wait_for_function")
  /\ UNCHANGED << input, pageStatus, exchange, proxy, browser, pageToken,
                  api_refresh_token, headers, calls, sent, pushed, failCalls, failed, error,
                  leaving, exitStatus >>

\* Lines 95-96: the variable is read again, unchecked, and the end of the
\* Playwright block is reached.
EvaluateReturn ==
  /\ pc = "evaluate" /\ "evaluate" \in inflight
  /\ api_refresh_token' = JsToPy(pageToken)
  /\ leaving' = "normal"
  /\ inflight' = {"playwright_exit"}
  /\ pc' = "playwright_exit"
  /\ UNCHANGED << input, pageStatus, exchange, proxy, browser, pageToken, headers,
                  calls, sent, pushed, failCalls, failed, error, exitStatus >>

\* The awaited exit of the Playwright block returns: the browser is stopped
\* and the page is gone.  Then lines 102-107 (normal end), the end of main
\* (return), or `async with Actor` failing the run (exception).
PlaywrightExitReturn ==
  /\ pc = "playwright_exit" /\ "playwright_exit" \in inflight
  /\ browser' = ReleaseBrowser(browser)
  /\ pageToken' = Undefined
  /\ inflight' = {}
  /\ CASE leaving = "normal" ->
            /\ headers' = BaseHeaders
            /\ pc' = NextCall("evaluate")
            /\ UNCHANGED << failed, exitStatus >>
       [] leaving = "return" ->
            /\ pc' = "exited"
            /\ UNCHANGED << headers, failed, exitStatus >>
       [] OTHER ->
            /\ pc' = "exited"
            /\ exitStatus' = "FAILED"
            /\ failed' = Append(failed, ExceptionMsg)
            /\ UNCHANGED headers
  /\ UNCHANGED << input, pageStatus, exchange, proxy, api_refresh_token, calls,
                  sent, pushed, failCalls, error, leaving >>

\* The exit of the Playwright block raises or is cancelled while it stops the
\* driver: the exception leaves main, and the browser has been stopped or is
\* still running.
PlaywrightExitRaises(stopped) ==
  /\ pc = "playwright_exit" /\ "playwright_exit" \in inflight
  /\ IF stopped
       THEN browser' = ReleaseBrowser(browser) /\ pageToken' = Undefined
       ELSE UNCHANGED << browser, pageToken >>
  /\ inflight' = {}
  /\ error' = [at |-> "playwright_exit", kind |-> "error"]
  /\ pc' = "exited"
  /\ exitStatus' = "FAILED"
  /\ failed' = Append(failed, ExceptionMsg)
  /\ UNCHANGED << input, pageStatus, exchange, proxy, api_refresh_token, headers,
                  calls, sent, pushed, failCalls, leaving >>

\* Lines 109-119: requests.post is called, once.
PostAuthtokens ==
  /\ pc = "authtokens"
  /\ inflight = {}
  /\ inflight' = {"authtokens"}
  /\ calls' = Append(calls, "authtokens")
  /\ sent' = Append(sent, [call |-> "authtokens", method |-> "POST",
                           headers |-> headers,
                           body |-> FormEncode(DataForm(api_refresh_token))])
  /\ UNCHANGED << pc, input, pageStatus, exchange, proxy, browser, pageToken,
                  api_refresh_token, headers, pushed, failCalls, failed, error, leaving,
                  exitStatus >>

\* Lines 113-127: the response arrives; raise_for_status, the JSON path and
\* the Authorization header.
AuthtokensReturn(status, body) ==
  /\ pc = "authtokens" /\ "authtokens" \in inflight
  /\ resp' = [status |-> status, body |-> ReceivedBody(status, body)]
  /\ IF RaiseForStatus(status)
       THEN /\ Abort("authtokens", "HTTPError")
            /\ UNCHANGED << auth_token, headers >>
       ELSE IF ~ExtractId(resp'.body).ok
         THEN /\ Abort("authtokens", ExtractId(resp'.body).err)
              /\ UNCHANGED << auth_token, headers >>
         ELSE /\ auth_token' = ExtractId(resp'.body).val
              /\ headers' = SetAuthorization(headers, ExtractId(resp'.body).val)
              /\ inflight' = {}
              /\ pc' = NextCall("authtokens")
              /\ UNCHANGED << browser, pageToken, failed, error, leaving, exitStatus >>
  /\ UNCHANGED << input, pageStatus, boost_resp, proxy, api_refresh_token, calls,
                  sent, pushed, failCalls >>

\* Lines 129-135: requests.get is called, once.
GetBoost ==
  /\ pc = "boost"
  /\ inflight = {}
  /\ inflight' = {"boost"}
  /\ calls' = Append(calls, "boost")
  /\ sent' = Append(sent, [call |-> "boost", method |-> "GET", headers |-> headers])
  /\ UNCHANGED << pc, input, pageStatus, exchange, proxy, browser, pageToken,
                  api_refresh_token, headers, pushed, failCalls, failed, error, leaving,
                  exitStatus >>

\* Lines 130-136: the response is kept, whatever its status.
BoostReturn(status, body) ==
  /\ pc = "boost" /\ "boost" \in inflight
  /\ boost_resp' = [status |-> status, body |-> body]
  /\ inflight' = {}
  /\ pc' = NextCall("boost")
  /\ UNCHANGED << input, pageStatus, resp, auth_token, proxy, browser, pageToken,
                  api_refresh_token, headers, calls, sent, pushed, failCalls, failed, error,
                  leaving, exitStatus >>

\* Lines 139-148: Actor.push_data is called with the record.
PushData ==
  /\ pc = "push_data"
  /\ inflight = {}
  /\ inflight' = {"push_data"}
  /\ calls' = Append(calls, "push_data")
  /\ pushed' = Append(pushed, OutputRecord)
  /\ UNCHANGED << pc, input, pageStatus, exchange, proxy, browser, pageToken,
                  api_refresh_token, headers, sent, failCalls, failed, error, leaving,
                  exitStatus >>

\* Line 139: Actor.push_data returns.
PushReturn ==
  /\ pc = "push_data" /\ "push_data" \in inflight
  /\ inflight' = {}
  /\ pc' = NextCall("push_data")
  /\ UNCHANGED << input, pageStatus, exchange, proxy, browser, pageToken,
                  api_refresh_token, headers, calls, sent, pushed, failCalls, failed,
                  error, leaving, exitStatus >>

\* Line 149 and the end of `async with Actor`: the awaited exit returns.
Finish ==
  /\ pc = "finish"
  /\ pc' = "exited"
  /\ exitStatus' = "SUCCEEDED"
  /\ UNCHANGED << input, pageStatus, exchange, proxy, browser, pageToken,
                  api_refresh_token, headers, calls, inflight, sent, pushed, failCalls, failed,
                  error, leaving >>

\* The end of `async with Actor`: the awaited exit raises or is cancelled, the
\* exception leaves main and the run fails, its record already handed over.
FinishRaises ==
  /\ pc = "finish"
  /\ pc' = "exited"
  /\ error' = [at |-> "actor_exit", kind |-> "error"]
  /\ exitStatus' = "FAILED"
  /\ failed' = Append(failed, ExceptionMsg)
  /\ UNCHANGED << input, pageStatus, exchange, proxy, browser, pageToken,
                  api_refresh_token, headers, calls, inflight, sent, pushed, failCalls,
                  leaving >>

\* A call other than page.goto exceeds its timeout: the exception is caught
\* nowhere in main().
TimesOut(c) ==
  /\ c \in Calls \ {"goto"}
  /\ pc = c /\ c \in inflight
  /\ TimeoutMs(c) > 0
  /\ Abort(c, "timeout")
  /\ UNCHANGED << input, pageStatus, exchange, proxy, api_refresh_token, headers,
                  calls, sent, pushed, failCalls >>

\* A call other than page.goto raises another error (connection refused,
\* proxy tunnel not established, page crashed, cancellation, ...).
Raises(c) ==
  /\ c \in Calls \ {"goto"}
  /\ pc = c /\ c \in inflight
  /\ Abort(c, "error")
  /\ UNCHANGED << input, pageStatus, exchange, proxy, api_refresh_token, headers,
                  calls, sent, pushed, failCalls >>

\* The steps the outside owes the run: an answer or a timeout.
Progress ==
  \/ ActorEnterReturn
  \/ ReadInput
  \/ ActorFailReturn
  \/ \E c \in Calls : Start(c)
  \/ GetProxyReturn
  \/ \E c \in Calls : SetupReturn(c)
  \/ LaunchReturn
  \/ \E s \in PageStatusCodes : GotoReturn(s)
  \/ GotoRaises("timeout")
  \/ \E c \in PlainPageSteps : PageStepReturn(c)
  \/ WaitForFunctionReturn
  \/ EvaluateReturn
  \/ PlaywrightExitReturn
  \/ PostAuthtokens
  \/ \E s \in StatusCodes, b \in Bodies : AuthtokensReturn(s, b)
  \/ GetBoost
  \/ \E s \in BoostStatusCodes, b \in BoostBodies : BoostReturn(s, b)
  \/ PushData
  \/ PushReturn
  \/ Finish
  \/ \E c \in Calls : TimesOut(c)

Next ==
  \/ Progress
  \/ \E s \in PageStatusCodes : PageLoginResponds(s)
  \/ \E t \in PageValues : PageSetsToken(t)
  \/ ActorEnterRaises
  \/ GetInputRaises
  \/ GotoRaises("error")
  \/ GotoCancelled
  \/ \E r \in BOOLEAN : ActorFailRaises(r)
  \/ \E b \in BOOLEAN : PlaywrightExitRaises(b)
  \/ FinishRaises
  \/ \E c \in Calls : Raises(c)

Spec == Init /\ [][Next]_vars

\* asyncio.run drives main() to its next call as long as it can run, and every
\* call in flight is eventually answered or timed out; that a call raises
\* another error, and what the page does, is possible and never owed.
LiveSpec == Init /\ [][Next]_vars /\ WF_vars(Progress)

----------------------------------------------------------------------------
(* Claims *)

Count(s, x) == Cardinality({i \in 1..Len(s) : s[i] = x})
Started(c) == c \in Range(calls)
Requests(c) == {i \in 1..Len(sent) : sent[i].call = c}
\* An input value that is absent, null or empty.
Missing(v) == v \in {Absent, None, ""}
\* A body that is JSON and holds data[0].id.
HasId(body) ==
  body.json /\ body.hasData /\ Len(body.data) >= 1 /\ body.data[1] # NoId
\* The calls of main() up to the navigation.
UpToGoto == << "get_proxy", "playwright_start", "launch", "new_context", "new_page", "goto" >>

\* C1: a run whose input lacks email or password (the value is not an object
\* holding them, or the key is absent, null or empty) is, once main() has the
\* input, failed with the input-validation message and does nothing else: no
\* proxy, no browser, no call, no request, no record.
C1_InvalidInputAborts ==
  (inputShape # "object" \/ Missing(email) \/ Missing(password)) =>
    /\ calls = << >> /\ sent = << >> /\ pushed = << >>
    /\ inflight \subseteq {"actor_enter", "get_input", "actor_fail"}
    /\ ~proxy /\ browser = "none"
    /\ pc \in {"actor_enter", "get_input", "actor_fail", "exited"}
    /\ (pc \notin {"actor_enter", "get_input"}
          /\ error.at \notin {"actor_enter", "get_input"}) => failCalls = << InputMsg >>
    /\ pc = "exited" =>
         /\ exitStatus = "FAILED"
         /\ failed # << >>
         /\ error = NoError => failed = << InputMsg >>

\* C2: an /authtokens response with a non-2xx status, or with a body that has
\* no data[0].id, aborts the run: no /boost call, no record.
C2_NonSuccessOrBadBodyAborts ==
  (resp # NoResp /\ (resp.status \notin 200..299 \/ ~HasId(resp.body))) =>
    /\ ~Started("boost") /\ pushed = << >>
    /\ pc = "exited" /\ exitStatus = "FAILED"

\* C3: once /boost has been issued, whatever happens to it the run ends
\* successful with exactly one record holding success and both tokens (the
\* runs in which the push or the exit of the actor raises are left aside).
C3_BoostBestEffort ==
  (pc = "exited" /\ Started("boost") /\ error.at \notin {"push_data", "actor_exit"}) =>
    /\ exitStatus = "SUCCEEDED"
    /\ Len(pushed) = 1
    /\ pushed[1].success
    /\ pushed[1].apiRefreshToken = api_refresh_token
    /\ pushed[1].authToken = auth_token

\* C4: a 4xx or 5xx status on the login call aborts the run before the token
\* is waited for or read, and no token exchange follows.
C4_LoginErrorStatusAborts ==
  /\ navStatus >= 400 =>
       Range(calls) \cap {"wait_for_function", "evaluate", "authtokens"} = {}
  /\ loginStatus >= 400 => Range(calls) \cap {"evaluate", "authtokens"} = {}

\* C5: an HTTP call answered with a status >= 500 is attempted again.
C5_ServerErrorRetried ==
  /\ (pc = "exited" /\ resp.status >= 500) => Cardinality(Requests("authtokens")) >= 2
  /\ (pc = "exited" /\ boost_resp.status >= 500) => Cardinality(Requests("boost")) >= 2

\* The login has completed successfully: the navigation and the login form
\* were not answered with an error status and a refresh token was read.
LoginSucceeded ==
  /\ navStatus # 0 /\ navStatus \notin 400..599
  /\ loginStatus \notin 400..599
  /\ api_refresh_token \in PageValues \ {Undefined, ""}
\* The token exchange has completed successfully: a 2xx response whose
\* data[0].id is the auth token.
ExchangeSucceeded ==
  /\ resp.status \in 200..299 /\ HasId(resp.body)
  /\ auth_token = resp.body.data[1]

\* C6: the calls are made in the fixed order login, /authtokens, /boost, push,
\* none skipped or repeated, never two in flight, and each step starts only
\* after the one before it has completed successfully (for /boost, whose
\* failure is tolerated: after it has been answered).
C6_FixedOrder ==
  /\ Cardinality(inflight) <= 1
  /\ Len(calls) <= Len(Order)
  /\ \A i \in 1..Len(calls) : calls[i] = Order[i]
  /\ inflight \cap Calls # {} => inflight = {calls[Len(calls)]}
  /\ Started("authtokens") =>
       /\ Started("evaluate") /\ leaving = "normal"
       /\ browser = "closed"
       /\ LoginSucceeded
  /\ Started("boost") => ExchangeSucceeded
  /\ Started("push_data") => boost_resp # NoResp
  /\ pushed # << >> => (calls = Order /\ Len(pushed) = 1)

\* C7: the record of a successful run holds the refresh token read from the
\* page, which is the credentials sent to /authtokens with type "2"; the auth
\* token data[0].id, which is the Bearer token sent to /boost; the status of
\* the /authtokens response; and success.  The /authtokens request carries no
\* Authorization header.
C7_RecordMatchesExchange ==
  /\ \A i \in Requests("authtokens") : "Authorization" \notin DOMAIN sent[i].headers
  /\ \A i \in 1..Len(pushed) :
       /\ pushed[i].success
       /\ pushed[i].apiRefreshToken = api_refresh_token
       /\ Len(sent) = 2
       /\ sent[1].call = "authtokens"
       /\ sent[1].body = [credentials |-> pushed[i].apiRefreshToken, type |-> "2"]
       /\ pushed[i].authToken = resp.body.data[1]
       /\ pushed[i].authtokensStatus = resp.status
       /\ sent[2].call = "boost"
       /\ "Authorization" \in DOMAIN sent[2].headers
       /\ sent[2].headers["Authorization"] = "Bearer " \o pushed[i].authToken

\* C8: at most one refresh token and one auth token are obtained; /authtokens
\* is only called with a token obtained from the page, never an empty or null
\* one; and when the wait for the token times out the run fails with no
\* /authtokens call and no record.
C8_TokenObtainedOrRunFails ==
  /\ Count(calls, "evaluate") <= 1
  /\ Count(calls, "authtokens") <= 1
  /\ \A i \in Requests("authtokens") :
       /\ "credentials" \in DOMAIN sent[i].body
       /\ sent[i].body["credentials"] \notin {None, Undefined, ""}
  /\ error.at = "wait_for_function" =>
       /\ pc \in {"playwright_exit", "exited"}
       /\ pc = "exited" => exitStatus = "FAILED"
       /\ sent = << >> /\ pushed = << >>

\* The calls C9 lists.
NetworkFacing ==
  {"goto", "wait_for_selector", "click", "fill_mail", "fill_password", "press",
   "wait_for_function", "authtokens", "boost"}

C9_TimeoutAborts ==
  /\ \A c \in NetworkFacing : TimeoutMs(c) > 0
  /\ error.kind = "timeout" =>
       /\ pc \in {"actor_fail", "playwright_exit", "exited"}
       /\ pc = "exited" => exitStatus = "FAILED"
       /\ calls[Len(calls)] = error.at
  /\ \A c \in Calls : Count(calls, c) <= 1

\* C9: every network-facing call has a timeout, a timeout fails the run and
\* no call is made again; so, every call being answered or timed out, the run
\* ends.
C9_TimeoutAbortsAndTerminates == [](C9_TimeoutAborts) /\ <>(pc = "exited")

C9_Witness ==
  /\ pc = "exited" /\ exitStatus = "FAILED"
  /\ error = [at |-> "boost", kind |-> "timeout"]

\* C10: the browser is open only inside the login flow and is released on
\* every way out of it, once the exit of the block has returned; a failed
\* navigation fails the run with the navigation message and nothing follows
\* it; no run both reports a failure and hands over a record.
C10_BrowserReleased ==
  /\ (browser = "open" /\ error.at # "playwright_exit") =>
       pc \in (BlockCalls \ {"launch"}) \cup {"actor_fail", "playwright_exit"}
  /\ pc \in {"authtokens", "boost", "push_data", "finish"} => browser = "closed"
  /\ (error.at = "goto" /\ error.kind \in {"timeout", "error"}) =>
       /\ failCalls = << NavigationMsg >>
       /\ pc \in {"actor_fail", "playwright_exit", "exited"}
       /\ pc # "actor_fail" =>
            (exitStatus = "FAILED" /\ failed = << NavigationMsg >> /\ leaving = "return")
  /\ failCalls # << >> =>
       /\ pc \in {"actor_fail", "playwright_exit", "exited"}
       /\ pc = "exited" => (exitStatus = "FAILED" /\ failed # << >>)
  /\ (Started("goto") /\ navStatus = 0 /\ "goto" \notin inflight) =>
       /\ calls = UpToGoto
       /\ sent = << >> /\ pushed = << >>
  /\ ~((failed # << >> \/ failCalls # << >> \/ exitStatus = "FAILED") /\ pushed # << >>)

====
